---- MODULE Spec2Model ----
(***************************************************************************)
(* Part 3 notebook of MachineLearningSamples-QnAMatching: the cells that   *)
(* build features, score the test questions with three base classifiers,   *)
(* average them and rank the true answer class.                            *)
(*                                                                         *)
(* The notebook is one sequential program; pc is the next statement.       *)
(* Scores are float64 values, with float64 arithmetic and comparison; the  *)
(* raw scores a fitted classifier gives are any values within the bounds.  *)
(***************************************************************************)
EXTENDS Integers, Sequences, FiniteSets

\* ---------------------------------------------------------------- bounds
MaxClasses == 4     \* distinct answer ids that may occur
MaxTest == 2        \* rows of testQ
MaxScore == 1       \* ensemble scores are drawn from the float64s 0.0 .. MaxScore
MaxRelabelTest == 2 \* rows of testQ when the evaluation is repeated on relabelled classes
MaxTrain == 4       \* rows of trainLabels when ovrClassifier is called alone
MaxPipelineTrain == 3  \* rows of trainQ when the notebook is run from cell 3
MaxRatio == 3       \* ovrClassifier is called with ratio None or 0..MaxRatio
MaxOvrTest == 1     \* test questions scored by ovrClassifier
MaxRaw == 1         \* raw classifier scores are drawn from 0..MaxRaw
MaxTokens == 2      \* distinct tokens that may occur in a question
MaxBaseRaw == 0     \* raw Naive Bayes and SVM scores are drawn from 0..MaxBaseRaw
MaxEnsClasses == 3  \* columns of the matrices averaged by cell 9 alone
MaxTieClasses == 18  \* columns of the ensemble matrix when rows with tied scores are ranked
MaxProbSteps == 2   \* their entries are drawn from k/MaxProbSteps, k in 0..MaxProbSteps

AnswerIds == {10 * k : k \in 1..MaxClasses}
RawVals == 0..MaxRaw
\* the answer ids that may label a training question; the largest id is left
\* for test questions of a class that was never trained
TrainIds == {10 * k : k \in 1..(MaxClasses - 1)}
\* the tokens that may occur in a training question; token 0 is left for test
\* questions, a token no training question holds
TrainTokens == 1..MaxTokens
Tokens == 0..MaxTokens
BaseRawVals == 0..MaxBaseRaw

\* ---------------------------------------------------------------- helpers
SeqsUpTo(S, lo, hi) == UNION {[1..n -> S] : n \in lo..hi}

Range(s) == {s[k] : k \in DOMAIN s}

RECURSIVE SumSeq(_)
SumSeq(s) == IF s = <<>> THEN 0 ELSE s[1] + SumSeq(Tail(s))

\* np.unique: the distinct values, ascending
NpUnique(labels) ==
  LET S == Range(labels)
  IN  CHOOSE u \in [1..Cardinality(S) -> S] :
        \A a, b \in 1..Cardinality(S) : a < b => u[a] < u[b]

\* ---------------------------------------------------------------- float64
\* A score is a float64.  A float64 x with 0 <= x < 4 is held exactly, as the
\* integer x * 2^FracBits written in three limbs of LimbBits bits, <<hi, mid,
\* lo>>; every float64 that is 0 or at least 2^(SignificandBits - FracBits) has
\* such a form, and the scores of the model are in that range.
LimbBits == 22
FracBits == 64
SignificandBits == 53
Limb == 2 ^ LimbBits

F64Zero == <<0, 0, 0>>

\* exact sum of two fixed-point numbers
BigAdd(x, y) ==
  LET lo  == x[3] + y[3]
      mid == x[2] + y[2] + (lo \div Limb)
  IN  <<x[1] + y[1] + (mid \div Limb), mid % Limb, lo % Limb>>

\* exact quotient of a fixed-point number by a small positive integer, rounded
\* down, and whether anything was dropped
BigDivSmall(x, d) ==
  LET r1 == x[1] % d
      n2 == r1 * Limb + x[2]
      n3 == (n2 % d) * Limb + x[3]
  IN  [q |-> <<x[1] \div d, n2 \div d, n3 \div d>>, inexact |-> n3 % d # 0]

BigLess(x, y) ==
  \/ x[1] < y[1]
  \/ x[1] = y[1] /\ x[2] < y[2]
  \/ x[1] = y[1] /\ x[2] = y[2] /\ x[3] < y[3]

RECURSIVE BitLength(_)
BitLength(n) == IF n = 0 THEN 0 ELSE 1 + BitLength(n \div 2)

BigBitLength(x) ==
  IF x[1] # 0 THEN 2 * LimbBits + BitLength(x[1])
  ELSE IF x[2] # 0 THEN LimbBits + BitLength(x[2])
  ELSE BitLength(x[3])

\* IEEE 754 round-to-nearest, ties to even: the float64 nearest to the
\* fixed-point number x, or to a number just above x when inexact says that a
\* positive amount below the last place of x is missing from it
RoundF64(x, inexact) ==
  LET cut == BigBitLength(x) - SignificandBits
  IN  IF cut <= 0 THEN x
      ELSE LET unit == 2 ^ cut
               keep == x[3] \div unit
               tail == x[3] % unit
               half == unit \div 2
               up   == \/ tail > half
                       \/ tail = half /\ (inexact \/ keep % 2 = 1)
           IN  IF up THEN BigAdd(<<x[1], x[2], keep * unit>>, <<0, 0, unit>>)
                     ELSE <<x[1], x[2], keep * unit>>

\* x + y in float64
F64Add(x, y) == RoundF64(BigAdd(x, y), FALSE)

\* x / d in float64, for a small positive integer d
F64DivInt(x, d) == LET r == BigDivSmall(x, d) IN RoundF64(r.q, r.inexact)

\* the float64 of the integer k
F64OfInt(k) == <<k * (2 ^ (FracBits - 2 * LimbBits)), 0, 0>>

\* k / d in float64, for small integers k >= 0 and d > 0
F64Ratio(k, d) == F64DivInt(F64OfInt(k), d)

\* x < y in float64
F64Less(x, y) == BigLess(x, y)

ScoreVals == {F64OfInt(k) : k \in 0..MaxScore}

\* np.argsort(-row) with the default kind='quicksort': the column indices in
\* descending score order, as NumPy's introsort over an index array leaves
\* them.  A segment of more than SMALL_QUICKSORT + 1 entries is partitioned
\* around the median of its first, middle and last entry; a shorter one is
\* insertion-sorted.  The sort turns to heapsort after 2 * floor(log2(n))
\* nested partitions, which rows of fewer than 2 * SMALL_QUICKSORT columns
\* never reach.
SMALL_QUICKSORT == 16

\* the score of the column at position p of the index array t; the sort key
\* is its negation
SortKey(row, t, p) == row[t[p]]

\* -x < -y, the comparison of two keys
KeyLess(x, y) == F64Less(y, x)

IntpSwap(t, a, b) == [t EXCEPT ![a] = t[b], ![b] = t[a]]

\* insertion sort, the inner loop: entries with a larger key move up one place
RECURSIVE InsertShift(_, _, _, _, _)
InsertShift(row, t, pl, pj, vi) ==
  IF pj > pl /\ KeyLess(row[vi], SortKey(row, t, pj - 1))
  THEN InsertShift(row, [t EXCEPT ![pj] = t[pj - 1]], pl, pj - 1, vi)
  ELSE [t EXCEPT ![pj] = vi]

\* insertion sort of positions pl..pr, from position pi on
RECURSIVE InsertionSort(_, _, _, _, _)
InsertionSort(row, t, pl, pr, pi) ==
  IF pi > pr THEN t
  ELSE InsertionSort(row, InsertShift(row, t, pl, pi, t[pi]), pl, pr, pi + 1)

\* do ++pi; while (v[*pi] < vp)
RECURSIVE ScanUp(_, _, _, _)
ScanUp(row, t, pi, vp) ==
  IF KeyLess(SortKey(row, t, pi + 1), vp) THEN ScanUp(row, t, pi + 1, vp) ELSE pi + 1

\* do --pj; while (vp < v[*pj])
RECURSIVE ScanDown(_, _, _, _)
ScanDown(row, t, pj, vp) ==
  IF KeyLess(vp, SortKey(row, t, pj - 1)) THEN ScanDown(row, t, pj - 1, vp) ELSE pj - 1

\* the partition loop: scan from both ends, swap, until the scans meet
RECURSIVE PartitionLoop(_, _, _, _, _)
PartitionLoop(row, t, pi, pj, vp) ==
  LET pi2 == ScanUp(row, t, pi, vp)
      pj2 == ScanDown(row, t, pj, vp)
  IN  IF pi2 >= pj2 THEN [t |-> t, pi |-> pi2]
      ELSE PartitionLoop(row, IntpSwap(t, pi2, pj2), pi2, pj2, vp)

\* one partition of positions pl..pr: the index array after it, and the
\* position the pivot ends at
Partition(row, t, pl, pr) ==
  LET pm == pl + ((pr - pl) \div 2)
      t1 == IF KeyLess(SortKey(row, t, pm), SortKey(row, t, pl)) THEN IntpSwap(t, pm, pl) ELSE t
      t2 == IF KeyLess(SortKey(row, t1, pr), SortKey(row, t1, pm)) THEN IntpSwap(t1, pr, pm) ELSE t1
      t3 == IF KeyLess(SortKey(row, t2, pm), SortKey(row, t2, pl)) THEN IntpSwap(t2, pm, pl) ELSE t2
      vp == SortKey(row, t3, pm)
      t4 == IntpSwap(t3, pm, pr - 1)
      r  == PartitionLoop(row, t4, pl, pr - 1, vp)
  IN  [t |-> IntpSwap(r.t, r.pi, pr - 1), pi |-> r.pi]

RECURSIVE AQuickSort(_, _, _, _)
AQuickSort(row, t, pl, pr) ==
  IF pr - pl > SMALL_QUICKSORT
  THEN LET p == Partition(row, t, pl, pr)
       IN  AQuickSort(row, AQuickSort(row, p.t, pl, p.pi - 1), p.pi + 1, pr)
  ELSE InsertionSort(row, t, pl, pr, pl + 1)

ArgsortDesc(row) == AQuickSort(row, [k \in 1..Len(row) |-> k], 1, Len(row))

\* np.where(sorted == answerId)[0]: the (1-based) positions holding answerId
NpWhere(sorted, answerId) == {k \in DOMAIN sorted : sorted[k] = answerId}

SetMin(S) == CHOOSE m \in S : \A x \in S : m <= x

\* pandas Series.mean() of the Rank column, as an exact fraction
MeanOf(s) == [num |-> SumSeq(s), den |-> Len(s)]

\* np.floor of a non-negative fraction
NpFloor(q) == q.num \div q.den

RECURSIVE Pow2Mod(_, _)
Pow2Mod(e, m) == IF e = 0 THEN 1 % m ELSE (2 * Pow2Mod(e - 1, m)) % m

\* the binary exponent of t/2000 (0 < t < 2000): the least j with t/2000 * 2^j >= 1
RECURSIVE BinaryExponent(_, _)
BinaryExponent(t, j) == IF t * (2 ^ j) >= 2000 THEN j ELSE BinaryExponent(t, j + 1)

\* k/n in float64 when k/n is exactly t/2000: the quotient is the multiple of
\* 2^-(52 + j) nearest to t/2000.  -1: the float is below t/2000, 0: equal,
\* 1: above.  (t * 2^(52 + j)) % 2000 is the part the 53-bit mantissa drops.
FloatVsExact(t) ==
  LET dropped == (t * Pow2Mod(52 + BinaryExponent(t, 0), 2000)) % 2000
  IN  IF dropped = 0 THEN 0 ELSE IF dropped < 1000 THEN -1 ELSE 1

\* Python 3 round(k/n, 3), in thousandths.  round() rounds the float64 k/n
\* correctly: to the nearest thousandth, and to the even one when the float
\* is exactly halfway.  When k/n itself is halfway between two thousandths,
\* the float is halfway only if it holds k/n exactly; otherwise it lies on
\* one side, and round() goes to that side.
Round3(k, n) ==
  LET lo  == (1000 * k) \div n
      rem == (1000 * k) % n
  IN  IF 2 * rem < n THEN lo
      ELSE IF 2 * rem > n THEN lo + 1
      ELSE LET side == FloatVsExact(2 * lo + 1)
           IN  IF side < 0 THEN lo
               ELSE IF side > 0 THEN lo + 1
               ELSE IF lo % 2 = 0 THEN lo ELSE lo + 1

\* ---------------------------------------------------------------- state
VARIABLES
  pc,                \* next statement of the notebook
  err,               \* the exception that stopped the run, "" if none
  np_random,         \* NumPy's global RandomState, never seeded: the number of draws taken from it
  trainQ,            \* training frame: AnswerId per question, and the tokens that occur in it
  token2IdHashInit,  \* cell 3: vocabulary of all training tokens
  idf,               \* cell 3
  x_wTrain,          \* normalised term frequencies of the training questions (cells 3 and 8)
  tfidfTrain, tfidfTest,   \* cell 3
  featureImpl,       \* what feature_selection returns on this training data
  token2IdHash,      \* cell 4: vocabulary of the selected tokens
  NBWeights,         \* cell 4
  nbImpl, svmImpl,   \* raw scores the NB product and the fitted SVM give on this data
  Y_test_prob1, Y_test_prob2,   \* cells 5 and 6
  cols1, cols2, cols3, colsAggr, \* the class each column of the four matrices was computed for
  combined,          \* every (feature matrix, learned weights) pair combined so far
  runNo, firstRun,   \* which run of the notebook this is, and what the first run left behind
  trainLabels,       \* ovrClassifier argument
  ratio,             \* ovrClassifier argument: <<>> is None, <<r>> is the integer r
  clf,               \* ovrClassifier argument: the classifier object, with what it was last fitted on
  x_wTest,           \* normalised term frequencies of the test questions
  uniqueLabel,       \* ovrClassifier local
  dummyLabels,       \* ovrClassifier local: one 0/1 column per class
  Y_test_prob,       \* ovrClassifier local: raw scores, questions x classes
  i,                 \* ovrClassifier loop variable: iterations completed
  posIdx, negIdx, allIdx,   \* ovrClassifier locals (0-based row numbers, as NumPy gives them)
  Y_test_prob3,      \* cell 8: what ovrClassifier returned
  testQ,             \* test frame: columns AnswerId, SortedAnswers, Rank (<<>> = no such column)
  uniqueAnswerId,    \* cell 3: ascending distinct training answer ids
  Y_test_prob_aggr,  \* cell 9: ensemble score matrix, questions x classes
  rankList,          \* local of rank()
  AR, top3,          \* cell 11 (top3 in thousandths); -1 = not computed
  baseline           \* metrics of the evaluation before the class ids were relabelled, <<>> if none

ovrVars == <<np_random, trainLabels, ratio, clf, x_wTest, uniqueLabel, dummyLabels,
             Y_test_prob, i, posIdx, negIdx, allIdx, Y_test_prob3>>

featVars == <<trainQ, token2IdHashInit, idf, x_wTrain, tfidfTrain, tfidfTest, featureImpl,
              token2IdHash, NBWeights, nbImpl, svmImpl, Y_test_prob1, Y_test_prob2>>

logVars == <<cols1, cols2, cols3, colsAggr, combined, runNo, firstRun>>

evalVars == <<testQ, uniqueAnswerId, Y_test_prob_aggr, rankList, AR, top3, baseline>>

upstreamVars == <<ovrVars, featVars, logVars>>

vars == <<pc, err, upstreamVars, evalVars>>

\* ---------------------------------------------------------------- ovrClassifier
None == <<>>

\* np.random.choice(a, size) for a non-empty a: size draws from a, each from
\* all of a (the default replace=True).  The draws come from NumPy's global
\* generator, which the notebook never seeds: NumPy seeds it from the operating
\* system when the kernel starts, so every sequence over a is a possible result.
NpRandomChoice(a, size) == [1..size -> Range(a)]

\* pd.get_dummies(trainLabels): one indicator column per distinct label, the
\* columns in ascending label order
GetDummies(labels) ==
  LET cats == NpUnique(labels)
  IN  [c \in DOMAIN cats |->
         [label |-> cats[c],
          col   |-> [k \in DOMAIN labels |-> IF labels[k] = cats[c] THEN 1 ELSE 0]]]

\* np.where(column == v)[0]: the 0-based row numbers, ascending
RECURSIVE NpWhereRows(_, _, _)
NpWhereRows(col, v, from) ==
  IF from > Len(col) THEN <<>>
  ELSE (IF col[from] = v THEN <<from - 1>> ELSE <<>>) \o NpWhereRows(col, v, from + 1)

\* line 278: the number of negatives asked for
NegSampleSize(r, pos) == r * Len(pos)

\* A feature matrix (tokens x questions) and the vocabulary of the learned
\* weights it is multiplied with, at the line that multiplies them
Combination(line, matrix, weightsVocab) == [at |-> line, matrix |-> matrix, weights |-> weightsVocab]

\* lines 265-268
ovr_setup ==
  /\ pc = "ovr_265"
  /\ uniqueLabel' = NpUnique(trainLabels)
  /\ dummyLabels' = GetDummies(trainLabels)
  /\ Y_test_prob' = [q \in 1..x_wTest.n |-> [c \in 1..Len(uniqueLabel') |-> 0]]
  /\ i' = 0
  /\ cols3' = <<>>
  /\ pc' = "ovr_270"
  /\ UNCHANGED <<err, np_random, trainLabels, ratio, clf, x_wTest, posIdx, negIdx, allIdx,
                 Y_test_prob3, featVars, cols1, cols2, colsAggr, combined,
                 runNo, firstRun, evalVars>>

\* The classes present in a training sample (Y_train)
SampleClasses(Y_train_all, rows) == {Y_train_all[r + 1] : r \in Range(rows)}

AllRows(Y_train_all) == [k \in 1..Len(Y_train_all) |-> k - 1]

\* lines 284-288: clf.fit(X_train, Y_train), then the score of every test question.
\* The scores are what the fitted classifier gives on the test questions: any
\* column of raw scores.
ScoreColumns(n) == [1..n -> RawVals]

\* lines 270-288, one iteration of the loop
ovr_iteration ==
  /\ pc = "ovr_270"
  /\ i < Len(uniqueLabel)
  /\ LET Y_train_all == dummyLabels[i + 1].col
         pos == NpWhereRows(Y_train_all, 1, 1)
         neg == NpWhereRows(Y_train_all, 0, 1)
         size == IF ratio = None THEN 0 ELSE NegSampleSize(ratio[1], pos)
     IN  \E raises \in BOOLEAN, drawn \in (IF Len(neg) = 0 THEN {<<>>} ELSE NpRandomChoice(neg, size)) :
         \* np.random.choice on an empty array raises ValueError: in every NumPy
         \* release when draws are asked for, and in the releases of the
         \* notebook's time also when size is 0
         /\ raises => (ratio # None /\ Len(neg) = 0)
         /\ (ratio # None /\ Len(neg) = 0 /\ size # 0) => raises
         /\ IF raises
            THEN /\ posIdx' = pos
                 /\ pc' = "error"
                 /\ err' = "ValueError@278"
                 /\ UNCHANGED <<np_random, negIdx, allIdx, clf, Y_test_prob, i>>
            ELSE LET rows == IF ratio = None THEN AllRows(Y_train_all) ELSE pos \o drawn
                 IN  /\ IF ratio = None
                        THEN UNCHANGED <<np_random, posIdx, negIdx, allIdx>>
                        ELSE /\ posIdx' = pos
                             /\ negIdx' = drawn
                             /\ allIdx' = rows
                             /\ np_random' = np_random + size
                     /\ clf' = [clf EXCEPT !.fitted = rows]
                     /\ IF Cardinality(SampleClasses(Y_train_all, rows)) < 2
                        THEN \* one class only: LinearSVC.fit raises, and a forest's
                             \* predict_proba has no column 1
                             /\ pc' = "error"
                             /\ err' = IF clf.kind = "LinearSVC" THEN "ValueError@284"
                                                                 ELSE "IndexError@288"
                             /\ UNCHANGED <<Y_test_prob, i>>
                        ELSE /\ \E col \in ScoreColumns(x_wTest.n) :
                                  Y_test_prob' = [q \in DOMAIN Y_test_prob |->
                                                    [Y_test_prob[q] EXCEPT ![i + 1] = col[q]]]
                             /\ i' = i + 1
                             /\ UNCHANGED <<pc, err>>
  /\ combined' = combined \cup {Combination("ovr_271", x_wTrain, NBWeights.vocab),
                                 Combination("ovr_272", x_wTest, NBWeights.vocab)}
  /\ cols3' = Append(cols3, [label |-> dummyLabels[i + 1].label, weights |-> NBWeights.classes[i + 1]])
  /\ UNCHANGED <<trainLabels, ratio, x_wTest, uniqueLabel, dummyLabels, Y_test_prob3, featVars,
                 cols1, cols2, colsAggr, runNo, firstRun, evalVars>>

\* softmax of modules/feature_extractor.py, row by row: exponentials over their
\* row sum, the quotient in float64.  Exponentials are taken to base 2, so that
\* they and their sum are exact.
softmax(scores2D) ==
  [q \in DOMAIN scores2D |->
     LET row == scores2D[q]
         total == SumSeq([c \in DOMAIN row |-> 2 ^ row[c]])
     IN  [c \in DOMAIN row |-> F64Ratio(2 ^ row[c], total)]]

\* line 290: return softmax(Y_test_prob)  (line 303: Y_test_prob3 = ...).  The
\* locals of the call end with it; the classifier object is the caller's and
\* stays fitted on the sample of the last class.
ovr_return ==
  /\ pc = "ovr_270"
  /\ i = Len(uniqueLabel)
  /\ Y_test_prob3' = softmax(Y_test_prob)
  /\ uniqueLabel' = <<>>
  /\ dummyLabels' = <<>>
  /\ Y_test_prob' = <<>>
  /\ i' = 0
  /\ posIdx' = <<>>
  /\ negIdx' = <<>>
  /\ allIdx' = <<>>
  /\ pc' = "cell9"
  /\ UNCHANGED <<err, np_random, trainLabels, ratio, clf, x_wTest, featVars, logVars, evalVars>>

OvrIdle ==
  /\ uniqueLabel = <<>>
  /\ dummyLabels = <<>>
  /\ Y_test_prob = <<>>
  /\ i = 0
  /\ posIdx = <<>>
  /\ negIdx = <<>>
  /\ allIdx = <<>>
  /\ Y_test_prob3 = <<>>

EvalIdle ==
  /\ testQ = [AnswerId |-> <<>>, Tokens |-> {}, SortedAnswers |-> <<>>, Rank |-> <<>>]
  /\ uniqueAnswerId = <<>>
  /\ Y_test_prob_aggr = <<>>
  /\ rankList = <<>>
  /\ AR = -1
  /\ top3 = -1
  /\ baseline = <<>>

FeatIdle ==
  /\ trainQ = [AnswerId |-> <<>>, Tokens |-> {}]
  /\ token2IdHashInit = <<>>
  /\ idf = <<>>
  /\ x_wTrain = <<>>
  /\ tfidfTrain = <<>>
  /\ tfidfTest = <<>>
  /\ featureImpl = {}
  /\ token2IdHash = <<>>
  /\ NBWeights = <<>>
  /\ nbImpl = <<>>
  /\ svmImpl = <<>>
  /\ Y_test_prob1 = <<>>
  /\ Y_test_prob2 = <<>>

LogIdle ==
  /\ cols1 = <<>>
  /\ cols2 = <<>>
  /\ cols3 = <<>>
  /\ colsAggr = <<>>
  /\ combined = {}
  /\ runNo = 1
  /\ firstRun = <<>>

\* the one-token vocabulary the arguments of a stand-alone call are built over
ArgVocab == [tokens |-> <<1>>, version |-> "token2IdHash"]

\* ovrClassifier alone: the call of line 303 for every label list, ratio,
\* classifier and generator state within the bounds.
InitOvr ==
  /\ pc = "ovr_265"
  /\ err = ""
  /\ np_random = 0
  /\ trainLabels \in SeqsUpTo(TrainIds, 1, MaxTrain)
  /\ ratio \in {None} \cup {<<r>> : r \in 0..MaxRatio}
  /\ clf \in [kind : {"RandomForestClassifier", "LinearSVC"}, fitted : {<<>>}]
  /\ x_wTest \in [vocab : {ArgVocab}, frame : {"testQ"}, n : 1..MaxOvrTest, nonzero : {{1}}]
  /\ trainQ = [AnswerId |-> <<>>, Tokens |-> {}]
  /\ token2IdHashInit = <<>>
  /\ idf = <<>>
  /\ x_wTrain = [vocab |-> ArgVocab, frame |-> "trainQ", n |-> Len(trainLabels), nonzero |-> {1}]
  /\ tfidfTrain = <<>>
  /\ tfidfTest = <<>>
  /\ featureImpl = {}
  /\ token2IdHash = <<>>
  /\ NBWeights = [vocab |-> ArgVocab, classes |-> NpUnique(trainLabels)]
  /\ nbImpl = <<>>
  /\ svmImpl = <<>>
  /\ Y_test_prob1 = <<>>
  /\ Y_test_prob2 = <<>>
  /\ OvrIdle
  /\ LogIdle
  /\ EvalIdle

NextOvr == ovr_setup \/ ovr_iteration \/ ovr_return

SpecOvr == InitOvr /\ [][NextOvr]_vars

\* ---------------------------------------------------------------- rank()
\* line 368: testQ = rank(testQ, Y_test_prob_aggr, uniqueAnswerId)
cell11_call_rank ==
  /\ pc = "cell11"
  /\ pc' = "rank_sort"
  /\ rankList' = <<>>
  /\ UNCHANGED <<upstreamVars, err, testQ, uniqueAnswerId, Y_test_prob_aggr, AR, top3, baseline>>

\* (mutant) the class list indexed without the argsort
SortedAnswersUnsorted(scores, ids) ==
  [q \in DOMAIN scores |-> [k \in DOMAIN ids |-> ids[k]]]

\* line 343: frame['SortedAnswers'] = list(np.array(uniqueAnswerId)[np.argsort(-scores, axis=1)])
SortedAnswersOf(scores, ids) ==
  [q \in DOMAIN scores |-> [k \in DOMAIN ids |-> ids[ArgsortDesc(scores[q])[k]]]]

rank_SortedAnswers ==
  /\ pc = "rank_sort"
  /\ testQ' = [testQ EXCEPT !.SortedAnswers = SortedAnswersOf(Y_test_prob_aggr, uniqueAnswerId)]
  /\ pc' = "rank_loop"
  /\ UNCHANGED <<upstreamVars, err, uniqueAnswerId, Y_test_prob_aggr, rankList, AR, top3, baseline>>

\* (mutant) the 0-based position, without the + 1
RankOfRowZeroBased(sorted, answerId) == SetMin(NpWhere(sorted, answerId)) - 1

\* line 347: np.where(frame['SortedAnswers'].iloc[i] == frame['AnswerId'].iloc[i])[0][0] + 1
RankOfRow(sorted, answerId) == SetMin(NpWhere(sorted, answerId))

\* lines 346-347, one iteration that appends
rank_append ==
  /\ pc = "rank_loop"
  /\ Len(rankList) < Len(testQ.AnswerId)
  /\ LET row == Len(rankList) + 1
     IN  /\ NpWhere(testQ.SortedAnswers[row], testQ.AnswerId[row]) # {}
         /\ rankList' = Append(rankList, RankOfRow(testQ.SortedAnswers[row], testQ.AnswerId[row]))
  /\ UNCHANGED <<upstreamVars, pc, err, testQ, uniqueAnswerId, Y_test_prob_aggr, AR, top3, baseline>>

\* line 347 when np.where finds nothing: [0][0] on an empty array raises IndexError
rank_raise ==
  /\ pc = "rank_loop"
  /\ Len(rankList) < Len(testQ.AnswerId)
  /\ LET row == Len(rankList) + 1
     IN  NpWhere(testQ.SortedAnswers[row], testQ.AnswerId[row]) = {}
  /\ pc' = "error"
  /\ err' = "IndexError@347"
  /\ UNCHANGED <<upstreamVars, testQ, uniqueAnswerId, Y_test_prob_aggr, rankList, AR, top3, baseline>>

\* lines 348-350: frame['Rank'] = rankList; return frame
rank_Rank ==
  /\ pc = "rank_loop"
  /\ Len(rankList) = Len(testQ.AnswerId)
  /\ testQ' = [testQ EXCEPT !.Rank = rankList]
  /\ pc' = "cell11_metrics"
  /\ UNCHANGED <<upstreamVars, err, uniqueAnswerId, Y_test_prob_aggr, rankList, AR, top3, baseline>>

\* the mean of an empty column, and its floor
NaN == "nan"

\* (mutant) np.ceil in place of np.floor
AverageRankCeil(ranks) == IF ranks = <<>> THEN NaN ELSE -((-SumSeq(ranks)) \div Len(ranks))

\* line 370: AR = np.floor(testQ['Rank'].mean())
AverageRank(ranks) == IF ranks = <<>> THEN NaN ELSE NpFloor(MeanOf(ranks))

\* line 371: top3 = round(len(testQ.query('Rank <= 3'))/len(testQ), 3)
Top3(ranks) == Round3(Cardinality({k \in DOMAIN ranks : ranks[k] <= 3}), Len(ranks))

\* lines 370-371
cell11_AR_top3 ==
  /\ pc = "cell11_metrics"
  /\ AR' = AverageRank(testQ.Rank)
  /\ IF Len(testQ.AnswerId) = 0
     THEN \* line 371 divides by len(testQ)
          /\ pc' = "error"
          /\ err' = "ZeroDivisionError@371"
          /\ UNCHANGED top3
     ELSE /\ top3' = Top3(testQ.Rank)
          /\ pc' = "done"
          /\ UNCHANGED err
  /\ UNCHANGED <<upstreamVars, testQ, uniqueAnswerId, Y_test_prob_aggr, rankList, baseline>>

\* ---------------------------------------------------------------- evaluation alone
\* The notebook about to run cell 11, for every class list, test labels and
\* ensemble matrix within the bounds, the test frame without rows included.
InitRank ==
  /\ pc = "cell11"
  /\ err = ""
  /\ np_random = 0
  /\ trainLabels = <<>>
  /\ ratio = None
  /\ clf = <<>>
  /\ x_wTest = <<>>
  /\ OvrIdle
  /\ FeatIdle
  /\ LogIdle
  /\ uniqueAnswerId \in {NpUnique(t) : t \in SeqsUpTo(AnswerIds, 1, MaxClasses)}
  /\ \E T \in 0..MaxTest :
       /\ testQ \in [AnswerId : [1..T -> AnswerIds], Tokens : {{}},
                     SortedAnswers : {<<>>}, Rank : {<<>>}]
       /\ Y_test_prob_aggr \in [1..T -> [1..Len(uniqueAnswerId) -> ScoreVals]]
  /\ rankList = <<>>
  /\ AR = -1
  /\ top3 = -1
  /\ baseline = <<>>

NextRank ==
  \/ cell11_call_rank
  \/ rank_SortedAnswers
  \/ rank_append
  \/ rank_raise
  \/ rank_Rank
  \/ cell11_AR_top3

SpecRank == InitRank /\ [][NextRank]_vars

\* ---------------------------------------------------------------- evaluation of many classes
\* The notebook about to run cell 11 on one test question, of a trained class
\* or of the one class that was not trained, for up to MaxTieClasses classes
\* and every score row that is MaxScore on a run of adjacent columns and 0
\* elsewhere, the row of equal scores included.
PlateauRows(n) ==
  {[c \in 1..n |-> IF lo <= c /\ c <= hi THEN F64OfInt(MaxScore) ELSE F64Zero] :
     lo \in 1..n, hi \in 0..n}

InitTies ==
  /\ pc = "cell11"
  /\ err = ""
  /\ np_random = 0
  /\ trainLabels = <<>>
  /\ ratio = None
  /\ clf = <<>>
  /\ x_wTest = <<>>
  /\ OvrIdle
  /\ FeatIdle
  /\ LogIdle
  /\ \E n \in 1..MaxTieClasses :
       /\ uniqueAnswerId = [c \in 1..n |-> 10 * c]
       /\ testQ \in [AnswerId : [1..1 -> {10 * c : c \in 1..(n + 1)}], Tokens : {{}},
                     SortedAnswers : {<<>>}, Rank : {<<>>}]
       /\ Y_test_prob_aggr \in [1..1 -> PlateauRows(n)]
  /\ rankList = <<>>
  /\ AR = -1
  /\ top3 = -1
  /\ baseline = <<>>

SpecTies == InitTies /\ [][NextRank]_vars

\* ---------------------------------------------------------------- relabelled classes
\* The same data with the answer ids renamed by a permutation pi, in trainQ and
\* testQ alike.  Cell 3 then lists the renamed ids ascending, and every
\* classifier's column for class pi[c] holds what class c's column held.
IdPerms == {pi \in [AnswerIds -> AnswerIds] : \A a, b \in AnswerIds : a # b => pi[a] # pi[b]}

RelabelIds(pi, ids) == NpUnique([k \in DOMAIN ids |-> pi[ids[k]]])

RelabelScores(pi, ids, scores) ==
  LET ids2 == RelabelIds(pi, ids)
      src(j2) == CHOOSE j \in DOMAIN ids : pi[ids[j]] = ids2[j2]
  IN  [q \in DOMAIN scores |-> [j2 \in DOMAIN ids2 |-> scores[q][src(j2)]]]

relabel_and_rerun ==
  /\ pc = "done"
  /\ baseline = <<>>
  /\ \E pi \in IdPerms :
       /\ uniqueAnswerId' = RelabelIds(pi, uniqueAnswerId)
       /\ Y_test_prob_aggr' = RelabelScores(pi, uniqueAnswerId, Y_test_prob_aggr)
       /\ testQ' = [AnswerId |-> [q \in DOMAIN testQ.AnswerId |-> pi[testQ.AnswerId[q]]],
                    Tokens |-> testQ.Tokens, SortedAnswers |-> <<>>, Rank |-> <<>>]
       /\ baseline' = [AR |-> AR, top3 |-> top3, Rank |-> testQ.Rank,
                       moved |-> uniqueAnswerId' # [k \in DOMAIN uniqueAnswerId |-> pi[uniqueAnswerId[k]]]]
  /\ pc' = "cell11"
  /\ rankList' = <<>>
  /\ AR' = -1
  /\ top3' = -1
  /\ UNCHANGED <<upstreamVars, err>>

InitRelabel ==
  /\ pc = "cell11"
  /\ err = ""
  /\ np_random = 0
  /\ trainLabels = <<>>
  /\ ratio = None
  /\ clf = <<>>
  /\ x_wTest = <<>>
  /\ OvrIdle
  /\ FeatIdle
  /\ LogIdle
  /\ uniqueAnswerId \in {NpUnique(t) : t \in SeqsUpTo(AnswerIds, 1, MaxClasses)}
  /\ \E T \in 1..MaxRelabelTest :
       /\ testQ \in [AnswerId : [1..T -> AnswerIds], Tokens : {{}},
                     SortedAnswers : {<<>>}, Rank : {<<>>}]
       /\ Y_test_prob_aggr \in [1..T -> [1..Len(uniqueAnswerId) -> ScoreVals]]
  /\ rankList = <<>>
  /\ AR = -1
  /\ top3 = -1
  /\ baseline = <<>>

NextRelabel == NextRank \/ relabel_and_rerun

SpecRelabel == InitRelabel /\ [][NextRelabel]_vars

\* ---------------------------------------------------------------- cells 3 to 9
\* tokensToIds of modules/feature_extractor.py: an id for every distinct token
\* of the column, ascending; with a featureHash, only for the tokens in it.
\* The result carries the name of the vocabulary it becomes.
tokensToIds(tokenColumn, featureHash) ==
  LET S == IF featureHash = None THEN tokenColumn ELSE tokenColumn \cap featureHash[1]
  IN  [tokens  |-> CHOOSE u \in [1..Cardinality(S) -> S] :
                     \A a, b \in 1..Cardinality(S) : a < b => u[a] < u[b],
       version |-> IF featureHash = None THEN "token2IdHashInit" ELSE "token2IdHash"]

\* normalizeTF of modules/feature_extractor.py: one row per token of the
\* vocabulary, one column per question of the frame; tokens of the frame that
\* the vocabulary lacks are dropped
normalizeTF(frameName, frame, vocabulary) ==
  [vocab |-> vocabulary, frame |-> frameName, n |-> Len(frame.AnswerId),
   nonzero |-> frame.Tokens \cap Range(vocabulary.tokens)]

\* countMatrix(frame, vocabulary, 'AnswerId', groupKeys): one row per token,
\* one column per key, in the order of groupKeys
countMatrix(vocabulary, groupKeys) == [vocab |-> vocabulary, classes |-> groupKeys]

\* (mutant) the distinct training answer ids in order of first appearance
Cell3_uniqueAnswerIdFirstSeen(labels) ==
  LET first(v) == SetMin({k \in DOMAIN labels : labels[k] = v})
      S == Range(labels)
  IN  CHOOSE u \in [1..Cardinality(S) -> S] :
        \A a, b \in 1..Cardinality(S) : a < b => first(u[a]) < first(u[b])

\* line 118: uniqueAnswerId = list(np.unique(trainQ['AnswerId']))
Cell3_uniqueAnswerId(labels) == NpUnique(labels)

\* lines 115-127
cell3 ==
  /\ pc = "cell3"
  /\ token2IdHashInit' = tokensToIds(trainQ.Tokens, None)
  /\ uniqueAnswerId' = Cell3_uniqueAnswerId(trainQ.AnswerId)
  /\ idf' = [vocab |-> token2IdHashInit']
  /\ x_wTrain' = normalizeTF("trainQ", trainQ, token2IdHashInit')
  /\ x_wTest' = normalizeTF("testQ", testQ, token2IdHashInit')
  /\ tfidfTrain' = x_wTrain'
  /\ tfidfTest' = x_wTest'
  /\ combined' = combined \cup {Combination("cell3_126", x_wTrain', idf'.vocab),
                                 Combination("cell3_127", x_wTest', idf'.vocab)}
  /\ pc' = "cell4"
  /\ UNCHANGED <<err, np_random, trainQ, featureImpl, token2IdHash, NBWeights, nbImpl, svmImpl,
                 Y_test_prob1, Y_test_prob2, trainLabels, ratio, clf, uniqueLabel, dummyLabels,
                 Y_test_prob, i, posIdx, negIdx, allIdx, Y_test_prob3,
                 cols1, cols2, cols3, colsAggr, runNo, firstRun,
                 testQ, Y_test_prob_aggr, rankList, AR, top3, baseline>>

\* feature_selection of modules/feature_extractor.py: the union over the
\* classes of each class's topN tokens, a non-empty part of the vocabulary
feature_selection(vocabulary) == <<featureImpl \cap Range(vocabulary.tokens)>>

\* lines 166-183
cell4 ==
  /\ pc = "cell4"
  /\ token2IdHash' = tokensToIds(trainQ.Tokens, feature_selection(token2IdHashInit))
  /\ NBWeights' = countMatrix(token2IdHash', uniqueAnswerId)
  /\ pc' = "cell5"
  /\ UNCHANGED <<err, np_random, trainQ, token2IdHashInit, idf, x_wTrain, tfidfTrain, tfidfTest,
                 featureImpl, nbImpl, svmImpl, Y_test_prob1, Y_test_prob2, ovrVars, logVars,
                 evalVars>>

\* (mutant) cell 5 without the reassignment of line 211
Cell5_x_wTestStale(frameName, frame, vocabulary) == x_wTest

\* line 211: x_wTest = normalizeTF(testQ, token2IdHash)
Cell5_x_wTest(frameName, frame, vocabulary) == normalizeTF(frameName, frame, vocabulary)

\* lines 209-212
cell5 ==
  /\ pc = "cell5"
  /\ x_wTest' = Cell5_x_wTest("testQ", testQ, token2IdHash)
  /\ combined' = combined \cup {Combination("cell5_212", x_wTest', NBWeights.vocab)}
  /\ IF Len(x_wTest'.vocab.tokens) # Len(NBWeights.vocab.tokens)
     THEN \* np.dot on shapes that are not aligned
          /\ pc' = "error"
          /\ err' = "ValueError@212"
          /\ UNCHANGED <<Y_test_prob1, cols1>>
     ELSE /\ Y_test_prob1' = softmax(nbImpl)
          /\ cols1' = NBWeights.classes
          /\ pc' = "cell6"
          /\ UNCHANGED err
  /\ UNCHANGED <<np_random, trainQ, token2IdHashInit, idf, x_wTrain, tfidfTrain, tfidfTest,
                 featureImpl, token2IdHash, NBWeights, nbImpl, svmImpl, Y_test_prob2, trainLabels, ratio, clf, uniqueLabel, dummyLabels,
                 Y_test_prob, i, posIdx, negIdx, allIdx, Y_test_prob3,
                 cols2, cols3, colsAggr, runNo, firstRun, evalVars>>

\* lines 232-237
cell6 ==
  /\ pc = "cell6"
  /\ clf' = [kind |-> "LinearSVC", fitted |-> AllRows(trainQ.AnswerId)]
  /\ IF Cardinality(Range(trainQ.AnswerId)) = 1
     THEN \* LinearSVC.fit needs more than one class
          /\ pc' = "error"
          /\ err' = "ValueError@234"
          /\ UNCHANGED <<Y_test_prob2, cols2, combined>>
     ELSE IF Cardinality(Range(trainQ.AnswerId)) = 2
     THEN \* decision_function of a two-class problem is one-dimensional, and
          \* softmax sums over axis 1
          /\ pc' = "error"
          /\ err' = "AxisError@237"
          /\ combined' = combined \cup {Combination("cell6_237", tfidfTest, tfidfTrain.vocab)}
          /\ UNCHANGED <<Y_test_prob2, cols2>>
     ELSE /\ Y_test_prob2' = softmax(svmImpl)
          /\ cols2' = NpUnique(trainQ.AnswerId)
          /\ combined' = combined \cup {Combination("cell6_237", tfidfTest, tfidfTrain.vocab)}
          /\ pc' = "cell8"
          /\ UNCHANGED err
  /\ UNCHANGED <<np_random, trainQ, token2IdHashInit, idf, x_wTrain, tfidfTrain, tfidfTest,
                 featureImpl, token2IdHash, NBWeights, nbImpl, svmImpl, Y_test_prob1, trainLabels, ratio, x_wTest, uniqueLabel,
                 dummyLabels, Y_test_prob, i, posIdx, negIdx, allIdx, Y_test_prob3,
                 cols1, cols3, colsAggr, runNo, firstRun, evalVars>>

\* line 303: ratio=3
CallRatio == 3

\* lines 299-303, up to the call of ovrClassifier
cell8 ==
  /\ pc = "cell8"
  /\ x_wTrain' = normalizeTF("trainQ", trainQ, token2IdHash)
  /\ x_wTest' = normalizeTF("testQ", testQ, token2IdHash)
  /\ clf' = [kind |-> "RandomForestClassifier", fitted |-> <<>>]
  /\ trainLabels' = trainQ.AnswerId
  /\ ratio' = <<CallRatio>>
  /\ pc' = "ovr_265"
  /\ UNCHANGED <<err, np_random, trainQ, token2IdHashInit, idf, tfidfTrain, tfidfTest,
                 featureImpl, token2IdHash, NBWeights, nbImpl, svmImpl, Y_test_prob1, Y_test_prob2,
                 uniqueLabel, dummyLabels, Y_test_prob, i, posIdx, negIdx, allIdx,
                 Y_test_prob3, logVars, evalVars>>

\* (mutant) an average with weights 2/3, 1/3 and 0
NpMean3Unequal(a, b, c) ==
  [q \in DOMAIN a |-> [j \in DOMAIN a[q] |->
     F64DivInt(F64Add(F64Add(a[q][j], a[q][j]), b[q][j]), 3)]]

\* np.mean([a, b, c], axis=0): the three matrices are added one after the
\* other along the new first axis and the sum is divided by 3, in float64
NpMean3(a, b, c) ==
  [q \in DOMAIN a |-> [j \in DOMAIN a[q] |->
     F64DivInt(F64Add(F64Add(a[q][j], b[q][j]), c[q][j]), 3)]]

\* line 321
cell9 ==
  /\ pc = "cell9"
  /\ Y_test_prob_aggr' = NpMean3(Y_test_prob1, Y_test_prob2, Y_test_prob3)
  /\ colsAggr' = [j \in DOMAIN cols1 |-> <<cols1[j], cols2[j], cols3[j].label>>]
  /\ pc' = "cell11"
  /\ UNCHANGED <<err, ovrVars, featVars, cols1, cols2, cols3, combined, runNo, firstRun,
                 testQ, uniqueAnswerId, rankList, AR, top3, baseline>>

\* The notebook about to run cell 3, for every training and test frame within
\* the bounds, and every value the library calls may give on them.
Init ==
  /\ pc = "cell3"
  /\ err = ""
  /\ np_random = 0
  /\ trainQ \in [AnswerId : SeqsUpTo(TrainIds, 1, MaxPipelineTrain),
                 Tokens : (SUBSET TrainTokens) \ {{}}]
  /\ \E T \in 1..MaxOvrTest :
       /\ testQ \in [AnswerId : [1..T -> AnswerIds], Tokens : {Tokens},
                     SortedAnswers : {<<>>}, Rank : {<<>>}]
       /\ nbImpl \in [1..T -> [1..Cardinality(Range(trainQ.AnswerId)) -> BaseRawVals]]
       /\ svmImpl \in [1..T -> [1..Cardinality(Range(trainQ.AnswerId)) -> BaseRawVals]]
  /\ featureImpl \in (SUBSET trainQ.Tokens) \ {{}}
  /\ token2IdHashInit = <<>>
  /\ idf = <<>>
  /\ x_wTrain = <<>>
  /\ tfidfTrain = <<>>
  /\ tfidfTest = <<>>
  /\ token2IdHash = <<>>
  /\ NBWeights = <<>>
  /\ Y_test_prob1 = <<>>
  /\ Y_test_prob2 = <<>>
  /\ trainLabels = <<>>
  /\ ratio = None
  /\ clf = <<>>
  /\ x_wTest = <<>>
  /\ OvrIdle
  /\ LogIdle
  /\ uniqueAnswerId = <<>>
  /\ Y_test_prob_aggr = <<>>
  /\ rankList = <<>>
  /\ AR = -1
  /\ top3 = -1
  /\ baseline = <<>>

Next ==
  \/ cell3
  \/ cell4
  \/ cell5
  \/ cell6
  \/ cell8
  \/ ovr_setup
  \/ ovr_iteration
  \/ ovr_return
  \/ cell9
  \/ cell11_call_rank
  \/ rank_SortedAnswers
  \/ rank_append
  \/ rank_raise
  \/ rank_Rank
  \/ cell11_AR_top3

Spec == Init /\ [][Next]_vars

\* ---------------------------------------------------------------- the notebook run twice
\* The kernel is restarted and every cell is run again on the same data.  The
\* restarted kernel holds no variable of the first run, and NumPy seeds its
\* global generator afresh.  firstRun keeps the training sample the classifier
\* of the first run was last fitted on, that of the last class.
notebook_rerun ==
  /\ pc = "done"
  /\ runNo = 1
  /\ firstRun' = [sample |-> clf.fitted]
  /\ runNo' = 2
  /\ pc' = "cell3"
  /\ np_random' = 0
  /\ testQ' = [testQ EXCEPT !.SortedAnswers = <<>>, !.Rank = <<>>]
  /\ token2IdHashInit' = <<>>
  /\ idf' = <<>>
  /\ x_wTrain' = <<>>
  /\ tfidfTrain' = <<>>
  /\ tfidfTest' = <<>>
  /\ token2IdHash' = <<>>
  /\ NBWeights' = <<>>
  /\ Y_test_prob1' = <<>>
  /\ Y_test_prob2' = <<>>
  /\ trainLabels' = <<>>
  /\ ratio' = None
  /\ clf' = <<>>
  /\ x_wTest' = <<>>
  /\ uniqueLabel' = <<>>
  /\ dummyLabels' = <<>>
  /\ Y_test_prob' = <<>>
  /\ i' = 0
  /\ posIdx' = <<>>
  /\ negIdx' = <<>>
  /\ allIdx' = <<>>
  /\ Y_test_prob3' = <<>>
  /\ cols1' = <<>>
  /\ cols2' = <<>>
  /\ cols3' = <<>>
  /\ colsAggr' = <<>>
  /\ combined' = {}
  /\ uniqueAnswerId' = <<>>
  /\ Y_test_prob_aggr' = <<>>
  /\ rankList' = <<>>
  /\ AR' = -1
  /\ top3' = -1
  /\ UNCHANGED <<err, trainQ, featureImpl, nbImpl, svmImpl, baseline>>

NextRerun == Next \/ notebook_rerun

SpecRerun == Init /\ [][NextRerun]_vars

\* ---------------------------------------------------------------- cell 9 alone
\* the float64s k / MaxProbSteps
ProbVals == {F64Ratio(k, MaxProbSteps) : k \in 0..MaxProbSteps}

\* The notebook about to run cell 9, for every three score matrices of one
\* shape within the bounds, with rows that sum to 1 and rows that do not.
InitEnsemble ==
  /\ pc = "cell9"
  /\ err = ""
  /\ np_random = 0
  /\ trainLabels = <<>>
  /\ ratio = None
  /\ clf = <<>>
  /\ x_wTest = <<>>
  /\ uniqueLabel = <<>>
  /\ dummyLabels = <<>>
  /\ Y_test_prob = <<>>
  /\ i = 0
  /\ posIdx = <<>>
  /\ negIdx = <<>>
  /\ allIdx = <<>>
  /\ trainQ = [AnswerId |-> <<>>, Tokens |-> {}]
  /\ token2IdHashInit = <<>>
  /\ idf = <<>>
  /\ x_wTrain = <<>>
  /\ tfidfTrain = <<>>
  /\ tfidfTest = <<>>
  /\ featureImpl = {}
  /\ token2IdHash = <<>>
  /\ NBWeights = <<>>
  /\ nbImpl = <<>>
  /\ svmImpl = <<>>
  /\ \E T \in 1..MaxOvrTest, n \in 1..MaxEnsClasses :
       /\ Y_test_prob1 \in [1..T -> [1..n -> ProbVals]]
       /\ Y_test_prob2 \in [1..T -> [1..n -> ProbVals]]
       /\ Y_test_prob3 \in [1..T -> [1..n -> ProbVals]]
  /\ LogIdle
  /\ EvalIdle

NextEnsemble == cell9

SpecEnsemble == InitEnsemble /\ [][NextEnsemble]_vars

\* ================================================================ claims
\* ---------------------------------------------------------------- C1, C4, C5
\* The class whose training sample was built last: column i once the iteration
\* is complete, column i + 1 when the iteration raised.
SampledCol == IF err \in {"ValueError@278", "ValueError@284", "IndexError@288"} THEN i + 1 ELSE i

RowsLabelled(c) == {k \in 0..(Len(trainLabels) - 1) : trainLabels[k + 1] = c}

RowsNotLabelled(c) == {k \in 0..(Len(trainLabels) - 1) : trainLabels[k + 1] # c}

SampledLabel == dummyLabels[SampledCol].label

\* np.random.choice has returned in some iteration
Sampled == ratio # None /\ SampledCol >= 1 /\ err # "ValueError@278"

Occurrences(s, v) == Cardinality({k \in DOMAIN s : s[k] = v})

Shortage(c) ==
  ratio # None /\ Cardinality(RowsNotLabelled(c)) < ratio[1] * Cardinality(RowsLabelled(c))

\* C1: the number of negatives drawn for a class never exceeds the number of
\* training questions that are not of that class.
C1_DrawWithinNegatives ==
  Sampled => Len(negIdx) <= Cardinality(RowsNotLabelled(SampledLabel))

\* C4: the sample of a class holds every positive exactly once, and exactly
\* ratio * |positives| negatives, pairwise distinct, none labelled with the class.
\* Stated for the classes that have that many negatives, where a draw without
\* replacement exists.
C4_PositivesOnceNegativesDistinct ==
  (Sampled /\ ~Shortage(SampledLabel)) =>
    /\ allIdx = posIdx \o negIdx
    /\ \A k \in RowsLabelled(SampledLabel) : Occurrences(allIdx, k) = 1
    /\ Len(negIdx) = ratio[1] * Cardinality(RowsLabelled(SampledLabel))
    /\ Range(negIdx) \subseteq RowsNotLabelled(SampledLabel)
    /\ \A a, b \in DOMAIN negIdx : a # b => negIdx[a] # negIdx[b]

\* C5: when a class has fewer negatives than ratio * |positives|, the draw is
\* capped at the negatives there are and the call completes with a score
\* column for every class.
C5_CapsDrawAndCompletes ==
  /\ (ratio # None /\ SampledCol >= 1 /\ Shortage(SampledLabel)) =>
        /\ pc # "error"
        /\ Len(negIdx) = Cardinality(RowsNotLabelled(SampledLabel))
  /\ (pc = "cell9" /\ \E c \in Range(trainLabels) : Shortage(c)) =>
        \A q \in DOMAIN Y_test_prob3 : Len(Y_test_prob3[q]) = Cardinality(Range(trainLabels))

\* ---------------------------------------------------------------- C2
OvrReturned == pc \in {"cell9", "cell11", "rank_sort", "rank_loop", "cell11_metrics", "done"}

\* C2: the second run of the notebook on the same data builds, for the last
\* class, the training sample the first run built for it.
C2_RunsIdentical ==
  (runNo = 2 /\ OvrReturned) => clf.fitted = firstRun.sample

\* ---------------------------------------------------------------- C7
\* the j-th smallest of the distinct training answer ids
JthSmallest(j) ==
  CHOOSE x \in Range(trainQ.AnswerId) :
    Cardinality({y \in Range(trainQ.AnswerId) : y < x}) = j - 1

NumClasses == Cardinality(Range(trainQ.AnswerId))

DenoteTrainingClasses(cols) ==
  /\ Len(cols) = NumClasses
  /\ \A j \in DOMAIN cols : cols[j] = JthSmallest(j)

\* C7: column j of the Naive Bayes, SVM, forest and ensemble matrices, and
\* entry j of the class list rank() indexes, all denote the j-th smallest
\* distinct training answer id, whatever the order of the training rows and
\* whatever classes the test set holds.
C7_ColumnsDenoteJthSmallest ==
  /\ cols1 # <<>> => DenoteTrainingClasses(cols1)
  /\ cols2 # <<>> => DenoteTrainingClasses(cols2)
  /\ \A j \in DOMAIN cols3 : cols3[j].label = JthSmallest(j) /\ cols3[j].weights = JthSmallest(j)
  /\ OvrReturned => Len(cols3) = NumClasses
  /\ colsAggr # <<>> =>
        /\ Len(colsAggr) = NumClasses
        /\ \A j \in DOMAIN colsAggr : colsAggr[j] = <<JthSmallest(j), JthSmallest(j), JthSmallest(j)>>
  /\ uniqueAnswerId # <<>> => DenoteTrainingClasses(uniqueAnswerId)
  /\ testQ.SortedAnswers # <<>> =>
        \A q \in DOMAIN testQ.SortedAnswers :
          \A k \in DOMAIN testQ.SortedAnswers[q] :
            testQ.SortedAnswers[q][k] = JthSmallest(ArgsortDesc(Y_test_prob_aggr[q])[k])

C7_Witness ==
  /\ testQ.SortedAnswers # <<>>
  /\ colsAggr # <<>>
  /\ \E a, b \in DOMAIN trainQ.AnswerId : a < b /\ trainQ.AnswerId[a] > trainQ.AnswerId[b]
  /\ \E q \in DOMAIN testQ.AnswerId : testQ.AnswerId[q] \notin Range(trainQ.AnswerId)

\* ---------------------------------------------------------------- C8
TestCombinations == {c \in combined : c.matrix.frame = "testQ"}

\* C8: every test feature matrix combined with learned weights (idf in cell
\* 3, NBWeights in cell 5, the SVM fitted on tfidfTrain in cell 6, NBWeights
\* in ovrClassifier) has the vocabulary of those weights, the same version of
\* it, and that vocabulary and the matrix's non-zero rows are training tokens.
C8_SameVocabularyVersion ==
  \A c \in TestCombinations :
    /\ c.matrix.vocab.tokens = c.weights.tokens
    /\ c.matrix.vocab.version = c.weights.version
    /\ Range(c.matrix.vocab.tokens) \subseteq trainQ.Tokens
    /\ c.matrix.nonzero \subseteq trainQ.Tokens

C8_Witness ==
  /\ pc = "done"
  /\ {c.at : c \in TestCombinations} = {"cell3_127", "cell5_212", "cell6_237", "ovr_272"}
  /\ token2IdHash.tokens # token2IdHashInit.tokens
  /\ ~(testQ.Tokens \subseteq trainQ.Tokens)

\* ---------------------------------------------------------------- C3
RankEnded == pc \in {"cell11_metrics", "done"} \/ err = "IndexError@347"

\* C3 as stated: whenever rank() has ended, every row of the frame has a Rank,
\* an integer in 1..number of classes, also for a row whose AnswerId is not a
\* training answer id.
C3_EveryRowRanked ==
  RankEnded =>
    /\ Len(testQ.Rank) = Len(testQ.AnswerId)
    /\ \A q \in DOMAIN testQ.Rank : testQ.Rank[q] \in 1..Len(uniqueAnswerId)

\* C3 amended: rank() returns exactly when every test AnswerId is a training
\* answer id, and then every row has a Rank in 1..number of classes; when some
\* test AnswerId is not a training answer id, rank() raises IndexError and the
\* frame gets no Rank column at all.
C3_RankInRangeOrRaises ==
  /\ testQ.Rank # <<>> =>
        /\ Len(testQ.Rank) = Len(testQ.AnswerId)
        /\ \A q \in DOMAIN testQ.Rank : testQ.Rank[q] \in 1..Len(uniqueAnswerId)
  /\ pc \in {"cell11_metrics", "done"} =>
        /\ Len(testQ.Rank) = Len(testQ.AnswerId)
        /\ Range(testQ.AnswerId) \subseteq Range(uniqueAnswerId)
  /\ err = "IndexError@347" =>
        /\ testQ.Rank = <<>>
        /\ testQ.AnswerId # <<>>
        /\ ~(Range(testQ.AnswerId) \subseteq Range(uniqueAnswerId))

C3_Witness ==
  /\ pc = "done"
  /\ Len(uniqueAnswerId) >= 3
  /\ Len(testQ.Rank) = 2
  /\ testQ.Rank[1] = 1
  /\ testQ.Rank[2] = Len(uniqueAnswerId)

\* ---------------------------------------------------------------- C6
ColumnOf(answerId) == CHOOSE j \in DOMAIN uniqueAnswerId : uniqueAnswerId[j] = answerId

\* C6: in every row of SortedAnswers, classes with equal score keep their
\* column (uniqueAnswerId) order.
C6_TiesKeepColumnOrder ==
  \A q \in DOMAIN testQ.SortedAnswers :
    \A a, b \in DOMAIN testQ.SortedAnswers[q] :
      LET ca == ColumnOf(testQ.SortedAnswers[q][a])
          cb == ColumnOf(testQ.SortedAnswers[q][b])
      IN  (a < b /\ Y_test_prob_aggr[q][ca] = Y_test_prob_aggr[q][cb]) => ca < cb

\* ---------------------------------------------------------------- C9
\* C9: Average Rank is the floor of the mean of the ranks: the one integer AR
\* with AR <= sum(Rank)/len(Rank) < AR + 1.
C9_FloorOfMean ==
  pc = "done" =>
    /\ AR * Len(testQ.Rank) <= SumSeq(testQ.Rank)
    /\ SumSeq(testQ.Rank) < (AR + 1) * Len(testQ.Rank)

C9_Witness ==
  /\ pc = "done"
  /\ SumSeq(testQ.Rank) % Len(testQ.Rank) # 0
  /\ AR >= 1

\* ---------------------------------------------------------------- C10
TrueColumn(q) == CHOOSE j \in DOMAIN uniqueAnswerId : uniqueAnswerId[j] = testQ.AnswerId[q]

NoTieWithTrueClass ==
  \A q \in DOMAIN testQ.AnswerId :
    \A j \in DOMAIN uniqueAnswerId :
      j # TrueColumn(q) => Y_test_prob_aggr[q][j] # Y_test_prob_aggr[q][TrueColumn(q)]

\* C10 as stated: after the class ids are permuted, Average Rank and Top-3 are
\* what they were, for every score matrix, ties included.
C10_MetricsInvariant ==
  (pc = "done" /\ baseline # <<>>) => (AR = baseline.AR /\ top3 = baseline.top3)

\* C10 amended: after the class ids are permuted, Average Rank and Top-3 are
\* what they were whenever no test question's true class has the same score as
\* another class.
C10_MetricsInvariantWithoutTies ==
  (pc = "done" /\ baseline # <<>> /\ NoTieWithTrueClass)
    => (AR = baseline.AR /\ top3 = baseline.top3 /\ testQ.Rank = baseline.Rank)

C10_Witness ==
  /\ pc = "done"
  /\ baseline # <<>>
  /\ baseline.moved
  /\ NoTieWithTrueClass
  /\ top3 = 0
  /\ AR = 4

\* ---------------------------------------------------------------- C11
\* exact sum of the entries of a row
RECURSIVE BigSum(_)
BigSum(row) == IF row = <<>> THEN F64Zero ELSE BigAdd(row[1], BigSum(Tail(row)))

\* 2^-50, and what counts as equal within tolerance
Tolerance == <<0, 0, 2 ^ (FracBits - 50)>>

Near(x, y) == ~BigLess(BigAdd(y, Tolerance), x) /\ ~BigLess(BigAdd(x, Tolerance), y)

RowsSumTo(m, one) == \A q \in DOMAIN m : BigSum(m[q]) = one

RowsSumNear(m, one) == \A q \in DOMAIN m : Near(BigSum(m[q]), one)

InputRowsSumToOne ==
  /\ RowsSumTo(Y_test_prob1, F64OfInt(1))
  /\ RowsSumTo(Y_test_prob2, F64OfInt(1))
  /\ RowsSumTo(Y_test_prob3, F64OfInt(1))

\* the sum of the three scores of an entry, and three times its ensemble score
SumOfThree(q, j) == BigSum(<<Y_test_prob1[q][j], Y_test_prob2[q][j], Y_test_prob3[q][j]>>)

ThriceEnsemble(q, j) == BigSum(<<Y_test_prob_aggr[q][j], Y_test_prob_aggr[q][j], Y_test_prob_aggr[q][j]>>)

SameShape ==
  /\ DOMAIN Y_test_prob_aggr = DOMAIN Y_test_prob1
  /\ \A q \in DOMAIN Y_test_prob_aggr : DOMAIN Y_test_prob_aggr[q] = DOMAIN Y_test_prob1[q]

\* C11 as stated: the ensemble matrix has the shape of the three score
\* matrices, each entry is exactly a third of the sum of the three
\* corresponding entries, and when every row of each of the three sums to 1,
\* every ensemble row sums to exactly 1.
C11_EnsembleIsMeanAndRowsSumToOne ==
  Y_test_prob_aggr # <<>> =>
    /\ SameShape
    /\ \A q \in DOMAIN Y_test_prob_aggr : \A j \in DOMAIN Y_test_prob_aggr[q] :
          ThriceEnsemble(q, j) = SumOfThree(q, j)
    /\ InputRowsSumToOne => RowsSumTo(Y_test_prob_aggr, F64OfInt(1))

\* C11 amended: the ensemble matrix has the shape of the three score matrices,
\* each entry is a third of the sum of the three corresponding entries within
\* a tolerance of 2^-50, and when every row of each of the three sums to 1,
\* every ensemble row sums to 1 within that tolerance.
C11_EnsembleIsMeanWithinTolerance ==
  Y_test_prob_aggr # <<>> =>
    /\ SameShape
    /\ \A q \in DOMAIN Y_test_prob_aggr : \A j \in DOMAIN Y_test_prob_aggr[q] :
          Near(ThriceEnsemble(q, j), SumOfThree(q, j))
    /\ InputRowsSumToOne => RowsSumNear(Y_test_prob_aggr, F64OfInt(1))

C11_Witness ==
  /\ pc = "cell11"
  /\ Y_test_prob_aggr # <<>>
  /\ Len(Y_test_prob_aggr[1]) >= 3
  /\ InputRowsSumToOne
  /\ Y_test_prob1 # Y_test_prob2
  /\ Y_test_prob2 # Y_test_prob3
  /\ Y_test_prob1 # Y_test_prob3
  /\ ~RowsSumTo(Y_test_prob_aggr, F64OfInt(1))
  /\ \E j \in DOMAIN Y_test_prob_aggr[1] : ThriceEnsemble(1, j) # SumOfThree(1, j)

====
